---- MODULE Spec2Model ----
(***************************************************************************)
(* PBO archive parser of the DayZ mod performance analyzer                 *)
(* (src/src/pboParser.js): PBOParser.parse, its header / property /        *)
(* cstring readers and the LZH decompressor decompressLZH.                 *)
(*                                                                         *)
(* Bytes are naturals 0..255, buffers are sequences of bytes (JavaScript   *)
(* index k is sequence index k + 1), strings are sequences of UTF-16 code  *)
(* units.                                                                  *)
(***************************************************************************)
EXTENDS Integers, Sequences, FiniteSets, TLC

VARIABLES
    lz,          \* decompressLZH: its arguments, locals and position
    buffer,      \* parse: the bytes fs.readFile returned
    pc,          \* parse: position of the call
    offset,      \* parse: let offset
    firstEntry,  \* parse: const firstEntry
    entries,     \* parse: const entries = []
    idx,         \* parse: position of the for..of loop over entries (1-based)
    files,       \* this.files
    returned,    \* the value parse() resolved with
    dataStart,   \* observation: offset when the table loop ended
    hdrLog,      \* observation: the header entries readHeaderEntry returned
    earlier,     \* observation: what the earlier parse() calls of this parser returned
    peer,        \* a second PBOParser whose parse() is suspended, and the run's phase
    req,         \* a file on its way to FileParser.parse: from the CLI or the web endpoint
    an,          \* a PerformanceAnalyzer and the CLI run that uses it
    srv,         \* a POST /api/analyze request and the uploads directory
    stats        \* a Statistics instance, its recordAnalysis calls and its file

vars == <<lz, buffer, pc, offset, firstEntry, entries, idx, files, returned, dataStart, hdrLog, earlier, peer, req, an, srv, stats>>

\* the analyzer, the request handler and the statistics: what the PBO parser
\* and its callers never touch
appVars == <<an, srv, stats>>

\* what the steps of one parse() call leave alone: the earlier calls, the
\* other parser and the caller
callVars == <<earlier, peer, req, appVars>>

parseVars == <<buffer, pc, offset, firstEntry, entries, idx, files, returned, dataStart, hdrLog, callVars>>

----------------------------------------------------------------------------
(* Bounds of the model *)

\* longest compressed input enumerated byte by byte
MaxIn == 4

\* largest originalSize of the enumerated inputs
MaxOriginalSize == 4

\* most literal bytes of an all-literal input
MaxLits == 9

\* most content entries of a generated archive
MaxEntries == 2

\* most parse() calls made on one PBOParser
MaxCalls == 2

----------------------------------------------------------------------------
(* Program constants *)

PACKING_METHOD_UNCOMPRESSED == 0

\* 0x43707273
PACKING_METHOD_PACKED == 1131442803

\* 0x56657273
PACKING_METHOD_PRODUCT == 1449489011

\* 0x456E6372, a packing method the parser does not support
PACKING_METHOD_ENCRYPTED == 1164862322

\* the padding byte 0x20
PadByte == 32

\* a back-reference copies ((pointer & 0x0f00) >> 8) + 3 bytes
MinCopyLen == 3

\* JavaScript numbers stop growing under ++ at 2^53 (2^53 + 1 rounds to 2^53)
\* and under -- at -2^53; the model scales that limit down to just above the
\* largest value a terminating run can produce.
NumCap == (IF MaxOriginalSize > MaxLits THEN MaxOriginalSize ELSE MaxLits) + MinCopyLen + 15 + 2

\* the RangeError of an out-of-range Buffer read, as a value no read returns
Throw == -1

Min(a, b) == IF a < b THEN a ELSE b

Max(a, b) == IF a > b THEN a ELSE b

----------------------------------------------------------------------------
(* Buffer primitives *)

\* buf[k] of a Buffer: undefined (stored as 0 into a Uint8Array) out of range
ByteAt(buf, k) == IF k >= 0 /\ k < Len(buf) THEN buf[k + 1] ELSE 0

\* buf[k] = v of a Buffer: a store out of range is dropped
StoreAt(buf, k, v) == IF k >= 0 /\ k < Len(buf) THEN [buf EXCEPT ![k + 1] = v] ELSE buf

\* buffer.slice(start, end) for 0 <= start: both ends clamp to the length
Slice(buf, start, end) == SubSeq(buf, Min(start, Len(buf)) + 1, Min(end, Len(buf)))

\* buf.readUInt16LE(k): RangeError unless k and k + 1 are inside
ReadUInt16LE(buf, k) ==
    IF k < 0 \/ k + 2 > Len(buf) THEN Throw
    ELSE buf[k + 1] + 256 * buf[k + 2]

\* the four bytes read with the most significant first
ReadUInt32BE(buf, k) ==
    IF k < 0 \/ k + 4 > Len(buf) THEN Throw
    ELSE 16777216 * buf[k + 1] + 65536 * buf[k + 2] + 256 * buf[k + 3] + buf[k + 4]

ReadUInt32LE_Lenient(buf, k) ==
    ByteAt(buf, k) + 256 * ByteAt(buf, k + 1) + 65536 * ByteAt(buf, k + 2) + 16777216 * ByteAt(buf, k + 3)

\* buf.readUInt32LE(k): RangeError unless k .. k + 3 are inside
ReadUInt32LE(buf, k) ==
    IF k < 0 \/ k + 4 > Len(buf) THEN Throw
    ELSE buf[k + 1] + 256 * buf[k + 2] + 65536 * buf[k + 3] + 16777216 * buf[k + 4]

IsCont(b) == b >= 128 /\ b <= 191

\* buf.toString('utf8'): the WHATWG decoder, one U+FFFD per maximal invalid
\* subpart, a 4-byte sequence as a surrogate pair
RECURSIVE Utf8From(_, _)
Utf8From(b, k) ==
    IF k > Len(b) THEN <<>>
    ELSE LET b0 == b[k]
             b1 == IF k + 1 <= Len(b) THEN b[k + 1] ELSE 0
             b2 == IF k + 2 <= Len(b) THEN b[k + 2] ELSE 0
             b3 == IF k + 3 <= Len(b) THEN b[k + 3] ELSE 0
             lo1 == IF b0 = 224 THEN 160 ELSE IF b0 = 240 THEN 144 ELSE 128
             hi1 == IF b0 = 237 THEN 159 ELSE IF b0 = 244 THEN 143 ELSE 191
             ok1 == b1 >= lo1 /\ b1 <= hi1
         IN  IF b0 < 128 THEN <<b0>> \o Utf8From(b, k + 1)
             ELSE IF b0 >= 194 /\ b0 <= 223 THEN
                 IF ok1 THEN <<(b0 - 192) * 64 + (b1 - 128)>> \o Utf8From(b, k + 2)
                 ELSE <<65533>> \o Utf8From(b, k + 1)
             ELSE IF b0 >= 224 /\ b0 <= 239 THEN
                 IF ok1 /\ IsCont(b2)
                 THEN <<(b0 - 224) * 4096 + (b1 - 128) * 64 + (b2 - 128)>> \o Utf8From(b, k + 3)
                 ELSE IF ok1 THEN <<65533>> \o Utf8From(b, k + 2)
                 ELSE <<65533>> \o Utf8From(b, k + 1)
             ELSE IF b0 >= 240 /\ b0 <= 244 THEN
                 IF ok1 /\ IsCont(b2) /\ IsCont(b3)
                 THEN LET cp == (b0 - 240) * 262144 + (b1 - 128) * 4096 + (b2 - 128) * 64 + (b3 - 128) - 65536
                      IN  <<55296 + (cp \div 1024), 56320 + (cp % 1024)>> \o Utf8From(b, k + 4)
                 ELSE IF ok1 /\ IsCont(b2) THEN <<65533>> \o Utf8From(b, k + 3)
                 ELSE IF ok1 THEN <<65533>> \o Utf8From(b, k + 2)
                 ELSE <<65533>> \o Utf8From(b, k + 1)
             ELSE <<65533>> \o Utf8From(b, k + 1)

Utf8Decode(b) == Utf8From(b, 1)

----------------------------------------------------------------------------
(* decompressLZH *)

LzIdle ==
    [pc |-> "idle", data |-> <<>>, originalSize |-> 0, output |-> <<>>,
     outputPos |-> 0, inputPos |-> 0, format |-> 0, i |-> 0, pointer |-> 0,
     rpos |-> 0, rlen |-> 0, copyPos |-> 0, maxRead |-> -1, result |-> <<>>]

\* entry of decompressLZH with a buffer that is not zero-filled
LzStartUnfilled(compressedData, originalSize) ==
    [LzIdle EXCEPT !.pc = "outer", !.data = compressedData, !.originalSize = originalSize,
                   !.output = [k \in 1..originalSize |-> PadByte]]

\* entry of decompressLZH: Buffer.alloc(originalSize) is zero-filled
LzStart(compressedData, originalSize) ==
    [LzIdle EXCEPT !.pc = "outer", !.data = compressedData, !.originalSize = originalSize,
                   !.output = [k \in 1..originalSize |-> 0]]

\* (format >> i) & 0x01
Bit(format, i) == (format \div (2 ^ i)) % 2

\* (pointer & 0x00ff) + ((pointer & 0xf000) >> 4)
Distance(pointer) == (pointer % 256) + ((pointer \div 4096) % 16) * 256

\* ((pointer & 0x0f00) >> 8) + 3
CopyLen(pointer) == ((pointer \div 256) % 16) + MinCopyLen

\* x++ and x-- on a JavaScript number
Inc(x) == IF x < NumCap THEN x + 1 ELSE x

Dec(x) == IF x > -NumCap THEN x - 1 ELSE x

OuterGuard(s) == s.outputPos < s.originalSize /\ s.inputPos < Len(s.data)

InnerGuardNoMargin(s) ==
    s.i < 8 /\ s.outputPos < s.originalSize /\ s.inputPos < Len(s.data)

InnerGuard(s) ==
    s.i < 8 /\ s.outputPos < s.originalSize /\ s.inputPos < Len(s.data) - 2

\* for (j = 0; j < n; j++) output[outputPos++] = 0x20
RECURSIVE PadRun(_, _, _)
PadRun(out, pos, n) ==
    IF n <= 0 THEN out ELSE PadRun(StoreAt(out, pos, PadByte), pos + 1, n - 1)

\* a block copy: the n bytes are read from the output as it was before the
\* operation
CopyRunOfSnapshot(out, pos, from, n) ==
    [k \in 1..Len(out) |->
        IF k - 1 >= pos /\ k - 1 < pos + n THEN ByteAt(out, from + (k - 1 - pos)) ELSE out[k]]

\* for (j = 0; j < n; j++) output[outputPos++] = output[copyPos++]
RECURSIVE CopyRun(_, _, _, _)
CopyRun(out, pos, from, n) ==
    IF n <= 0 THEN out
    ELSE CopyRun(StoreAt(out, pos, ByteAt(out, from)), pos + 1, from + 1, n - 1)

\* line 195-196: the round loop's test, the control byte, or the return
LzhRound ==
    /\ lz.pc = "outer"
    /\ lz' = IF OuterGuard(lz)
             THEN [lz EXCEPT !.format = ByteAt(lz.data, lz.inputPos),
                             !.maxRead = Max(lz.maxRead, lz.inputPos),
                             !.inputPos = lz.inputPos + 1,
                             !.i = 0,
                             !.pc = "inner"]
             ELSE [lz EXCEPT !.pc = "ret", !.result = Utf8Decode(lz.output)]
    /\ UNCHANGED parseVars

\* line 198-210, 215: one sub-operation up to its padding or copy loop
LzhSubOp ==
    /\ lz.pc = "inner"
    /\ lz' = IF ~InnerGuard(lz) THEN [lz EXCEPT !.pc = "outer"]
             ELSE IF Bit(lz.format, lz.i) = 1
             THEN [lz EXCEPT !.output = StoreAt(lz.output, lz.outputPos, ByteAt(lz.data, lz.inputPos)),
                             !.maxRead = Max(lz.maxRead, lz.inputPos),
                             !.outputPos = lz.outputPos + 1,
                             !.inputPos = lz.inputPos + 1,
                             !.i = lz.i + 1]
             ELSE LET p == ReadUInt16LE(lz.data, lz.inputPos)
                  IN  IF p = Throw
                      THEN [lz EXCEPT !.pc = "throw", !.maxRead = Max(lz.maxRead, lz.inputPos + 1)]
                      ELSE LET rp == lz.outputPos - Distance(p)
                               rl == CopyLen(p)
                           IN  [lz EXCEPT !.pointer = p,
                                          !.maxRead = Max(lz.maxRead, lz.inputPos + 1),
                                          !.inputPos = lz.inputPos + 2,
                                          !.rpos = rp,
                                          !.rlen = rl,
                                          !.copyPos = IF rp + rl < 0 THEN lz.copyPos ELSE Max(0, rp),
                                          !.pc = IF rp + rl < 0 THEN "padall" ELSE "pad"]
    /\ UNCHANGED parseVars

\* line 211-213: the whole run of 0x20 of a reference that lies before the output
LzhPadAll ==
    /\ lz.pc = "padall"
    /\ lz' = [lz EXCEPT !.output = PadRun(lz.output, lz.outputPos, lz.rlen),
                        !.outputPos = lz.outputPos + lz.rlen,
                        !.i = lz.i + 1,
                        !.pc = "inner"]
    /\ UNCHANGED parseVars

\* line 216: the test of while (rpos < 0)
LzhPad ==
    /\ lz.pc = "pad"
    /\ lz' = [lz EXCEPT !.pc = IF lz.rpos < 0 THEN "padbody" ELSE "copy"]
    /\ UNCHANGED parseVars

\* line 217-218: one pass of the body of while (rpos < 0)
LzhPadBody ==
    /\ lz.pc = "padbody"
    /\ lz' = [lz EXCEPT !.output = StoreAt(lz.output, lz.outputPos, PadByte),
                        !.outputPos = Inc(lz.outputPos),
                        !.rlen = Dec(lz.rlen),
                        !.pc = "pad"]
    /\ UNCHANGED parseVars

\* line 221-225: the copy loop
LzhCopy ==
    /\ lz.pc = "copy"
    /\ lz' = [lz EXCEPT !.output = CopyRun(lz.output, lz.outputPos, lz.copyPos, lz.rlen),
                        !.outputPos = lz.outputPos + Max(lz.rlen, 0),
                        !.copyPos = lz.copyPos + Max(lz.rlen, 0),
                        !.i = lz.i + 1,
                        !.pc = "inner"]
    /\ UNCHANGED parseVars

LzhStep == LzhRound \/ LzhSubOp \/ LzhPadAll \/ LzhPad \/ LzhPadBody \/ LzhCopy


----------------------------------------------------------------------------
(* Strings *)

\* s.toLowerCase(), on the ASCII letters
ToLowerCase(s) == [k \in 1..Len(s) |-> IF s[k] >= 65 /\ s[k] <= 90 THEN s[k] + 32 ELSE s[k]]

\* s.endsWith(suffix)
EndsWith(s, suffix) ==
    /\ Len(s) >= Len(suffix)
    /\ SubSeq(s, Len(s) - Len(suffix) + 1, Len(s)) = suffix

\* ".c" and ".cpp"
DotC == <<46, 99>>

DotCpp == <<46, 99, 112, 112>>

IsScriptNameCaseSensitive(fileName) == EndsWith(fileName, DotC) \/ EndsWith(fileName, DotCpp)

\* line 96: the inclusion test
IsScriptName(fileName) ==
    EndsWith(ToLowerCase(fileName), DotC) \/ EndsWith(ToLowerCase(fileName), DotCpp)

\* fileName.split(/[\\/]/).pop()
RECURSIVE Basename(_)
Basename(s) ==
    IF \E k \in 1..Len(s) : s[k] \in {47, 92}
    THEN Basename(Tail(s))
    ELSE s

\* content.split('\n')
RECURSIVE SplitLines(_, _)
SplitLines(s, cur) ==
    IF s = <<>> THEN <<cur>>
    ELSE IF Head(s) = 10 THEN <<cur>> \o SplitLines(Tail(s), <<>>)
    ELSE SplitLines(Tail(s), Append(cur, Head(s)))

----------------------------------------------------------------------------
(* The readers *)

\* line 178-181: the index of the terminator, or the buffer length
RECURSIVE CStringEnd(_, _)
CStringEnd(buf, end) ==
    IF end < Len(buf) /\ buf[end + 1] # 0 THEN CStringEnd(buf, end + 1) ELSE end

\* readCString: buffer.toString('utf8', offset, end) and newOffset: end + 1
ReadCString(buf, off) ==
    LET end == CStringEnd(buf, off)
    IN  [value |-> Utf8Decode(Slice(buf, off, end)), newOffset |-> end + 1]

\* readHeaderEntry throws when one of its five readUInt32LE does
HeaderEntryThrows(buf, off) ==
    LET o == ReadCString(buf, off).newOffset
    IN  \E k \in 0..4 : ReadUInt32LE(buf, o + 4 * k) = Throw

ReadHeaderEntry(buf, off) ==
    LET fileName == ReadCString(buf, off)
        o == fileName.newOffset
    IN  [fileName |-> fileName.value,
         packingMethod |-> ReadUInt32LE(buf, o),
         originalSize |-> ReadUInt32LE(buf, o + 4),
         reserved |-> ReadUInt32LE(buf, o + 8),
         timeStamp |-> ReadUInt32LE(buf, o + 12),
         dataSize |-> ReadUInt32LE(buf, o + 16),
         newOffset |-> o + 20]

\* readProperty without its early return: a value is read after every name
ReadPropertyAlwaysValue(buf, off) ==
    LET name == ReadCString(buf, off)
        value == ReadCString(buf, name.newOffset)
    IN  [name |-> name.value, value |-> value.value, newOffset |-> value.newOffset]

\* readProperty: name null is modelled as the empty string
ReadProperty(buf, off) ==
    LET name == ReadCString(buf, off)
        value == ReadCString(buf, name.newOffset)
    IN  IF name.value = <<>>
        THEN [name |-> <<>>, value |-> <<>>, newOffset |-> name.newOffset]
        ELSE [name |-> name.value, value |-> value.value, newOffset |-> value.newOffset]

NoEntry ==
    [fileName |-> <<>>, packingMethod |-> 0, originalSize |-> 0, reserved |-> 0,
     timeStamp |-> 0, dataSize |-> 0, newOffset |-> 0]

\* line 112-118
FileRecord(entry, content) ==
    [path |-> entry.fileName,
     name |-> Basename(entry.fileName),
     content |-> content,
     lines |-> SplitLines(content, <<>>),
     size |-> Len(content)]

\* the offset advanced only for an entry that is decoded
ConsumeDataWhenDecoded(off, entry) ==
    IF entry.packingMethod \in {PACKING_METHOD_UNCOMPRESSED, PACKING_METHOD_PACKED}
    THEN off + entry.dataSize ELSE off

\* line 99: offset += entry.dataSize of a script entry, before its method is
\* looked at
ConsumeData(off, entry) == off + entry.dataSize

SkipDataForgotten(off, entry) == off

\* line 120: offset += entry.dataSize of an entry that is not a script
SkipData(off, entry) == off + entry.dataSize

----------------------------------------------------------------------------
(* parse *)

\* line 59-62: fs.readFile resolves with the bytes of the file
ReadFile(bytes) ==
    /\ pc = "start"
    /\ pc' = "first"
    /\ buffer' = bytes
    /\ offset' = 0
    /\ entries' = <<>>
    /\ UNCHANGED <<lz, firstEntry, idx, files, returned, dataStart, hdrLog>>
    /\ UNCHANGED callVars

FirstEntryNeverContent(h) == FALSE

\* line 67, 75: the first header entry is pushed as a content entry
FirstEntryIsContent(h) == h.packingMethod # PACKING_METHOD_PRODUCT /\ h.fileName # <<>>

\* line 64-68, 75-78
ReadFirstEntry ==
    /\ pc = "first"
    /\ IF HeaderEntryThrows(buffer, offset)
       THEN /\ pc' = "error"
            /\ UNCHANGED <<offset, firstEntry, entries, hdrLog>>
       ELSE LET h == ReadHeaderEntry(buffer, offset)
            IN  /\ firstEntry' = h
                /\ offset' = h.newOffset
                /\ hdrLog' = Append(hdrLog, h)
                /\ entries' = IF FirstEntryIsContent(h) THEN Append(entries, h) ELSE entries
                /\ pc' = IF h.packingMethod = PACKING_METHOD_PRODUCT THEN "props" ELSE "table"
    /\ UNCHANGED <<lz, buffer, idx, files, returned, dataStart>>
    /\ UNCHANGED callVars

\* line 69-74: one pass of the property loop
ReadPropertyStep ==
    /\ pc = "props"
    /\ LET prop == ReadProperty(buffer, offset)
       IN  /\ offset' = prop.newOffset
           /\ pc' = IF prop.name = <<>> THEN "table" ELSE "props"
    /\ UNCHANGED <<lz, buffer, firstEntry, entries, idx, files, returned, dataStart, hdrLog>>
    /\ UNCHANGED callVars

\* line 80-93: one pass of the table loop
ReadTableEntry ==
    /\ pc = "table"
    /\ IF HeaderEntryThrows(buffer, offset)
       THEN /\ pc' = "error"
            /\ UNCHANGED <<offset, entries, hdrLog, dataStart, idx>>
       ELSE LET h == ReadHeaderEntry(buffer, offset)
            IN  /\ offset' = h.newOffset
                /\ hdrLog' = Append(hdrLog, h)
                /\ IF h.fileName = <<>>
                   THEN /\ pc' = "extract"
                        /\ dataStart' = h.newOffset
                        /\ idx' = 1
                        /\ UNCHANGED entries
                   ELSE /\ entries' = Append(entries, h)
                        /\ UNCHANGED <<pc, dataStart, idx>>
    /\ UNCHANGED <<lz, buffer, firstEntry, files, returned>>
    /\ UNCHANGED callVars

\* line 95-109, 119-121: one pass of the extraction loop, up to the decoding
ExtractEntry ==
    /\ pc = "extract"
    /\ idx <= Len(entries)
    /\ LET entry == entries[idx]
           fileData == Slice(buffer, offset, offset + entry.dataSize)
       IN  /\ offset' = IF IsScriptName(entry.fileName)
                         THEN ConsumeData(offset, entry)
                         ELSE SkipData(offset, entry)
           /\ IF IsScriptName(entry.fileName) /\ entry.packingMethod = PACKING_METHOD_PACKED
              THEN /\ lz' = LzStart(fileData, entry.originalSize)
                   /\ pc' = "lzh"
                   /\ UNCHANGED <<idx, files>>
              ELSE /\ files' = IF IsScriptName(entry.fileName)
                                  /\ entry.packingMethod = PACKING_METHOD_UNCOMPRESSED
                               THEN Append(files, FileRecord(entry, Utf8Decode(fileData)))
                               ELSE files
                   /\ idx' = idx + 1
                   /\ UNCHANGED <<lz, pc>>
    /\ UNCHANGED <<buffer, firstEntry, entries, returned, dataStart, hdrLog>>
    /\ UNCHANGED callVars

\* line 105, 111-118: decompressLZH has returned (or thrown) to parse
ExtractPacked ==
    /\ pc = "lzh"
    /\ lz.pc \in {"ret", "throw"}
    /\ IF lz.pc = "throw"
       THEN /\ pc' = "error"
            /\ UNCHANGED <<files, idx>>
       ELSE /\ files' = Append(files, FileRecord(entries[idx], lz.result))
            /\ idx' = idx + 1
            /\ pc' = "extract"
    /\ lz' = LzIdle
    /\ UNCHANGED <<buffer, offset, firstEntry, entries, returned, dataStart, hdrLog>>
    /\ UNCHANGED callVars

\* line 124-126
Return ==
    /\ pc = "extract"
    /\ idx > Len(entries)
    /\ pc' = "done"
    /\ returned' = files
    /\ UNCHANGED <<lz, buffer, offset, firstEntry, entries, idx, files, dataStart, hdrLog>>
    /\ UNCHANGED callVars

----------------------------------------------------------------------------
(* The archives parse is run on: the layout of the header comment of        *)
(* pboParser.js, encoded to bytes, whole or cut short                       *)

U32LE(v) == <<v % 256, (v \div 256) % 256, (v \div 65536) % 256, (v \div 16777216) % 256>>

\* a header entry: reserved is 0, the timeStamp of every generated entry is 5
EncodeHeader(name, method, originalSize, dataSize) ==
    name \o <<0>> \o U32LE(method) \o U32LE(originalSize) \o U32LE(0)
         \o U32LE(5) \o U32LE(dataSize)

BoundaryMarker == EncodeHeader(<<>>, 0, 0, 0)

\* "a.c", "B.CPP", "n.h"
NameAC == <<97, 46, 99>>

NameBCPP == <<66, 46, 67, 80, 80>>

NameH == <<110, 46, 104>>

\* "d/e\f.c": a path with both separators
NameDirFC == <<100, 47, 101, 92, 102, 46, 99>>

\* the two bytes of U+00E9, stored raw
RawAccent == [method |-> PACKING_METHOD_UNCOMPRESSED, originalSize |-> 2, data |-> <<195, 169>>]

\* "hi", stored raw
RawHi == [method |-> PACKING_METHOD_UNCOMPRESSED, originalSize |-> 2, data |-> <<104, 105>>]

\* "hi", stored under a method the parser does not know
EncryptedHi == [method |-> PACKING_METHOD_ENCRYPTED, originalSize |-> 2, data |-> <<104, 105>>]

\* two literals and a back-reference of distance 2, length 3: "hihih"
PackedOk == [method |-> PACKING_METHOD_PACKED, originalSize |-> 5, data |-> <<3, 104, 105, 2, 0, 0>>]

\* a packed stream that ends before its originalSize bytes are produced
PackedShort == [method |-> PACKING_METHOD_PACKED, originalSize |-> 4, data |-> <<255, 104, 105, 0>>]

\* a back-reference of distance 255 at output position 0
PackedBefore == [method |-> PACKING_METHOD_PACKED, originalSize |-> 3, data |-> <<0, 255, 0, 0>>]

\* a back-reference of distance 1, length 3 at output position 0
PackedStraddle == [method |-> PACKING_METHOD_PACKED, originalSize |-> 1, data |-> <<0, 1, 0, 0>>]

EntryOptions ==
    { [name |-> NameAC, payload |-> p] :
        p \in {RawHi, EncryptedHi, PackedOk, PackedShort, PackedBefore, PackedStraddle} }
    \cup { [name |-> NameBCPP, payload |-> RawHi] }
    \cup { [name |-> NameDirFC, payload |-> RawAccent] }
    \cup { [name |-> NameH, payload |-> p] : p \in {RawHi, PackedStraddle} }

RECURSIVE EncodeTable(_)
EncodeTable(es) ==
    IF es = <<>> THEN <<>>
    ELSE EncodeHeader(Head(es).name, Head(es).payload.method,
                      Head(es).payload.originalSize, Len(Head(es).payload.data))
         \o EncodeTable(Tail(es))

RECURSIVE EncodeData(_)
EncodeData(es) ==
    IF es = <<>> THEN <<>> ELSE Head(es).payload.data \o EncodeData(Tail(es))

\* what precedes the entry table: nothing, an empty first header that is not
\* the product entry, or the product entry with its property block
\* ("p" = "v" is the one pair)
Preambles ==
    { <<>>,
      EncodeHeader(<<>>, 0, 0, 0),
      EncodeHeader(<<>>, PACKING_METHOD_PRODUCT, 0, 0) \o <<0>>,
      EncodeHeader(<<>>, PACKING_METHOD_PRODUCT, 0, 0) \o <<112, 0, 118, 0, 0>> }

EntryLists == UNION { [1..n -> EntryOptions] : n \in 0..MaxEntries }

\* the buffer lengths an archive is cut to
CutsOf(total, tableEnd) ==
    {total, total - 1, tableEnd - 1, tableEnd - 20, tableEnd - 21, 23, 21, 5, 0} \cap (0..total)

\* "test.c" and "hello"
NameTestC == <<116, 101, 115, 116, 46, 99>>

Hello == <<104, 101, 108, 108, 111>>

\* header "test.c" (method 0, originalSize 5, reserved 0, timeStamp 0,
\* dataSize 5), an all-zero boundary header, the bytes "hello"
ScenarioA ==
    NameTestC \o <<0>> \o U32LE(0) \o U32LE(5) \o U32LE(0) \o U32LE(0) \o U32LE(5)
        \o [k \in 1..21 |-> 0] \o Hello

Archives ==
    {ScenarioA} \cup
    UNION { LET table == pre \o EncodeTable(es) \o BoundaryMarker
                whole == table \o EncodeData(es)
            IN  { SubSeq(whole, 1, c) : c \in CutsOf(Len(whole), Len(table)) }
          : pre \in Preambles, es \in EntryLists }

----------------------------------------------------------------------------
(* parse on a freshly constructed PBOParser *)

\* a PBOParser as its constructor leaves it, with no parse() call begun
FreshInstance ==
    [lz |-> LzIdle, buffer |-> <<>>, pc |-> "start", offset |-> 0, firstEntry |-> NoEntry,
     entries |-> <<>>, idx |-> 1, files |-> <<>>, returned |-> <<>>, dataStart |-> -1,
     hdrLog |-> <<>>, earlier |-> <<>>]

\* one parser only: no second parser exists
NoPeer ==
    [phase |-> "alone", running |-> "A", ref |-> <<>>, file |-> <<>>,
     inst |-> [FreshInstance EXCEPT !.pc = "none"]]

\* no file has been handed to the CLI or the endpoint
NoRequest == [via |-> "none", ext |-> "", size |-> 0, exists |-> FALSE, stage |-> "idle"]

\* the results of a PerformanceAnalyzer on no file
NoResults ==
    [summary |-> [totalFiles |-> 0, totalIssues |-> 0, critical |-> 0, high |-> 0,
                  medium |-> 0, low |-> 0, info |-> 0],
     issues |-> <<>>,
     fileStats |-> <<>>]

\* no PerformanceAnalyzer yet
NoAnalyzer ==
    [pc |-> "none", files |-> <<>>, results |-> NoResults, calls |-> 0,
     score |-> -1, rating |-> "", quiet |-> FALSE, output |-> "none", exit |-> -1]

\* no request yet, the uploads directory empty
NoUpload ==
    [stage |-> "idle", hasFile |-> FALSE, stored |-> FALSE, filePath |-> "null",
     parsed |-> <<>>, outcome |-> "", status |-> 0, score |-> -1, rating |-> ""]

\* this.stats = null, and statistics.json missing
NullStats == [set |-> FALSE, totalAnalyses |-> 0, totalFilesChecked |-> 0]

\* no Statistics yet
NoStatistics ==
    [stage |-> "idle", mem |-> NullStats, file |-> NullStats, base |-> NullStats,
     calls |-> <<>>, overlap |-> FALSE]

AppIdle ==
    /\ an = NoAnalyzer
    /\ srv = NoUpload
    /\ stats = NoStatistics

Init ==
    /\ buffer = <<>>
    /\ lz = LzIdle
    /\ pc = "start"
    /\ offset = 0
    /\ firstEntry = NoEntry
    /\ entries = <<>>
    /\ idx = 1
    /\ files = <<>>
    /\ returned = <<>>
    /\ dataStart = -1
    /\ hdrLog = <<>>
    /\ earlier = <<>>
    /\ peer = NoPeer
    /\ req = NoRequest
    /\ AppIdle

\* the synchronous part of parse, after the read
ParseStep ==
    \/ ReadFirstEntry
    \/ ReadPropertyStep
    \/ ReadTableEntry
    \/ ExtractEntry
    \/ LzhStep
    \/ ExtractPacked
    \/ Return

Next ==
    \/ pc = "start" /\ \E bytes \in Archives : ReadFile(bytes)
    \/ ParseStep

Spec == Init /\ [][Next]_vars

\* once the file is read parse runs to its end: it has no further await
FairSpec == Spec /\ WF_vars(ParseStep)

----------------------------------------------------------------------------
(* parse called again on the same PBOParser *)

\* line 58-62: a further parse() call on the parser whose last call returned,
\* over the same unchanged file: the read resolves with the same bytes, the
\* locals are new, this.files is what the constructor and the earlier calls
\* left
ParseAgain ==
    /\ pc = "done"
    /\ peer.phase = "alone"
    /\ Len(earlier) + 1 < MaxCalls
    /\ earlier' = Append(earlier, returned)
    /\ pc' = "first"
    /\ offset' = 0
    /\ entries' = <<>>
    /\ firstEntry' = NoEntry
    /\ idx' = 1
    /\ dataStart' = -1
    /\ hdrLog' = <<>>
    /\ UNCHANGED <<lz, buffer, files, returned, peer, req, appVars>>

NextTwice ==
    \/ Next
    \/ ParseAgain

SpecTwice == Init /\ [][NextTwice]_vars

----------------------------------------------------------------------------
(* two PBOParser objects whose parse() calls overlap. A parse() call runs to  *)
(* the await of line 59 and is suspended; when its read resolves it runs to  *)
(* its end without a further suspension.                                     *)

\* the fields of the parser whose parse() is running
Running ==
    [lz |-> lz, buffer |-> buffer, pc |-> pc, offset |-> offset, firstEntry |-> firstEntry,
     entries |-> entries, idx |-> idx, files |-> files, returned |-> returned,
     dataStart |-> dataStart, hdrLog |-> hdrLog, earlier |-> earlier]

\* the parser r becomes the running one
Resume(r) ==
    /\ lz' = r.lz
    /\ buffer' = r.buffer
    /\ pc' = r.pc
    /\ offset' = r.offset
    /\ firstEntry' = r.firstEntry
    /\ entries' = r.entries
    /\ idx' = r.idx
    /\ files' = r.files
    /\ returned' = r.returned
    /\ dataStart' = r.dataStart
    /\ hdrLog' = r.hdrLog
    /\ earlier' = r.earlier

WholeArchive(pre, es) == pre \o EncodeTable(es) \o BoundaryMarker \o EncodeData(es)

\* the files of the overlapping parses
PairArchives ==
    { ScenarioA,
      WholeArchive(<<>>, <<[name |-> NameAC, payload |-> RawHi], [name |-> NameBCPP, payload |-> RawHi]>>),
      WholeArchive(<<>>, <<[name |-> NameAC, payload |-> PackedOk], [name |-> NameAC, payload |-> PackedBefore]>>),
      WholeArchive(EncodeHeader(<<>>, PACKING_METHOD_PRODUCT, 0, 0) \o <<112, 0, 118, 0, 0>>,
                   <<[name |-> NameDirFC, payload |-> RawAccent]>>),
      WholeArchive(<<>>, <<[name |-> NameAC, payload |-> PackedStraddle]>>),
      WholeArchive(<<>>, <<[name |-> NameAC, payload |-> EncryptedHi], [name |-> NameH, payload |-> RawHi]>>),
      SubSeq(WholeArchive(<<>>, <<[name |-> NameAC, payload |-> RawHi]>>), 1, 30) }

\* the parse of a file has returned when run alone; now a new PBOParser A on
\* that file and a new PBOParser B on another file are built and parse() is
\* called on both: each runs to its await
StartPair ==
    /\ pc = "done"
    /\ peer.phase = "alone"
    /\ earlier = <<>>
    /\ peer' = [phase |-> "pair", running |-> "A", ref |-> returned, file |-> buffer,
                inst |-> FreshInstance]
    /\ Resume(FreshInstance)
    /\ UNCHANGED <<req, appVars>>

\* line 59: the read of the running parser resolves: A reads the file that was
\* parsed alone, B a different one
ResolveRead ==
    /\ pc = "start"
    /\ peer.phase = "pair"
    /\ \E bytes \in (IF peer.running = "A" THEN {peer.file} ELSE PairArchives \ {peer.file}) :
           ReadFile(bytes)

\* the event loop turns to the other parser: before any read has resolved
\* (the other read resolves first), or when the running parse has ended
Switch ==
    /\ peer.phase = "pair"
    /\ peer.inst.pc = "start"
    /\ \/ pc = "start" /\ peer.running = "A"
       \/ pc \in {"done", "error"}
    /\ peer' = [peer EXCEPT !.running = IF @ = "A" THEN "B" ELSE "A", !.inst = Running]
    /\ Resume(peer.inst)
    /\ UNCHANGED <<req, appVars>>

NextPair ==
    \/ pc = "start" /\ peer.phase = "alone" /\ \E bytes \in PairArchives : ReadFile(bytes)
    \/ ParseStep
    \/ StartPair
    \/ ResolveRead
    \/ Switch

SpecPair == Init /\ [][NextPair]_vars

\* the event loop runs every continuation that is ready
FairSpecPair == SpecPair /\ WF_vars(NextPair)

----------------------------------------------------------------------------
(* The callers of FileParser.parse: the CLI action and POST /api/analyze *)

\* fileSize: 50 * 1024 * 1024
FileSizeLimit == 52428800

\* file sizes around the limit
FileSizes == {0, 1, FileSizeLimit - 1, FileSizeLimit, FileSizeLimit + 1, 2 * FileSizeLimit}

\* the extension of the file name, as written
FileExts == {".zip", ".ZIP", ".pbo"}

\* path.extname(name).toLowerCase()
LowerExt(ext) == IF ext = ".ZIP" THEN ".zip" ELSE ext

\* everything but the caller's state
parserVars == <<lz, buffer, pc, offset, firstEntry, entries, idx, files, returned, dataStart, hdrLog, earlier, peer, appVars>>

\* the CLI action is run on a path
CliRun(ext, size, exists) ==
    /\ req.stage = "idle"
    /\ req' = [via |-> "cli", ext |-> ext, size |-> size, exists |-> exists, stage |-> "access"]
    /\ UNCHANGED parserVars

\* the CLI action: fs.access, then new FileParser(zipfile).parse()
CliAccess ==
    /\ req.via = "cli"
    /\ req.stage = "access"
    /\ req' = [req EXCEPT !.stage = IF req.exists THEN "parse" ELSE "exit"]
    /\ UNCHANGED parserVars

\* handleFile of the page: the name must end in .zip, the size must not
\* exceed 50 MB
BrowserSelect(ext, size) ==
    /\ req.stage = "idle"
    /\ req' = [via |-> "page", ext |-> ext, size |-> size, exists |-> TRUE,
               stage |-> IF ext # ".zip" THEN "refused type"
                         ELSE IF size > FileSizeLimit THEN "refused size"
                         ELSE "selected"]
    /\ UNCHANGED parserVars

\* analyzeFile of the page: the selected file is posted to /api/analyze
BrowserAnalyze ==
    /\ req.stage = "selected"
    /\ req' = [req EXCEPT !.stage = "upload"]
    /\ UNCHANGED parserVars

\* a client posts a file to /api/analyze without the page
DirectPost(ext, size) ==
    /\ req.stage = "idle"
    /\ req' = [via |-> "post", ext |-> ext, size |-> size, exists |-> TRUE, stage |-> "upload"]
    /\ UNCHANGED parserVars

\* upload.single('modFile'): the fileFilter, then the fileSize limit; a
\* refused upload goes to the error middleware, not to the handler
Upload ==
    /\ req.stage = "upload"
    /\ req' = [req EXCEPT !.stage = IF LowerExt(req.ext) # ".zip" THEN "refused type"
                                    ELSE IF req.size > FileSizeLimit THEN "refused size"
                                    ELSE "handler"]
    /\ UNCHANGED parserVars

\* the handler of /api/analyze: new FileParser(filePath).parse()
Handler ==
    /\ req.stage = "handler"
    /\ req' = [req EXCEPT !.stage = "parse"]
    /\ UNCHANGED parserVars

\* FileParser.parse: parsePBO for .pbo, parseZip otherwise
FileParserParse ==
    /\ req.stage = "parse"
    /\ req' = [req EXCEPT !.stage = IF LowerExt(req.ext) = ".pbo" THEN "parsePBO" ELSE "parseZip"]
    /\ UNCHANGED parserVars

NextCallers ==
    \/ req.stage = "idle" /\ \E ext \in FileExts, size \in FileSizes, exists \in BOOLEAN :
                                 CliRun(ext, size, exists)
    \/ CliAccess
    \/ req.stage = "idle" /\ \E ext \in FileExts, size \in FileSizes : BrowserSelect(ext, size)
    \/ BrowserAnalyze
    \/ req.stage = "idle" /\ \E ext \in FileExts, size \in FileSizes : DirectPost(ext, size)
    \/ Upload
    \/ Handler
    \/ FileParserParse

SpecCallers == Init /\ [][NextCallers]_vars

----------------------------------------------------------------------------
(* PerformanceAnalyzer: the rules, analyzeFile, analyze, the summary, the
   score and the rating *)

\* the most lines the analyzed files have together
MaxLines == 3

\* the most analyze() calls on one PerformanceAnalyzer
MaxAnalyze == 2

\* the largest count of one severity when the summary is drawn directly
MaxCount == 5

\* the most literals before a back-reference, and its largest distance
MaxDistance == 2

\* SEVERITY
SEVERITY == [CRITICAL |-> "CRITICAL", HIGH |-> "HIGH", MEDIUM |-> "MEDIUM", LOW |-> "LOW", INFO |-> "INFO"]

\* the script lines the analyzed files are made of
CallFast == "CallLater(F, 10);"
CallMid == "CallLater(F, 60);"
CallSlow == "CallLater(F, 200);"
TimerLine == "CallLater(F, 70, true);"
QueueLine == "GetGame().GetCallQueue(CALL_CATEGORY_SYSTEM).CallLater(UpdatePlayer, 200);"
SleepLine == "Sleep(5);"
LoopWrite == "while (1) FPrintln(h, s);"

ScriptLines == {CallFast, CallMid, CallSlow, TimerLine, QueueLine, SleepLine, LoopWrite}

\* parseInt of the digits after the first comma of a CallLater line
Interval(text) ==
    CASE text = CallFast -> 10
      [] text = CallMid -> 60
      [] text = TimerLine -> 70
      [] OTHER -> 200

\* the rules whose pattern matches one of the script lines, in the order of
\* [...performanceRules, ...enhancedRules]; a pattern is held as the set of the
\* script lines it matches (each of them once)
AllRules ==
    << [id |-> "calllater-no-remove", severity |-> SEVERITY.HIGH,
        pattern |-> {CallFast, CallMid, CallSlow, TimerLine, QueueLine}],
       [id |-> "file-operations-loop", severity |-> SEVERITY.CRITICAL,
        pattern |-> {LoopWrite}],
       [id |-> "sleep-in-code", severity |-> SEVERITY.HIGH,
        pattern |-> {SleepLine}],
       [id |-> "update-frequency", severity |-> SEVERITY.MEDIUM,
        pattern |-> {CallFast, CallMid, CallSlow, TimerLine, QueueLine}],
       [id |-> "wrong-callqueue-category", severity |-> SEVERITY.MEDIUM,
        pattern |-> {QueueLine}],
       [id |-> "getgame-spam", severity |-> SEVERITY.LOW,
        pattern |-> {QueueLine}],
       [id |-> "inappropriate-update-interval", severity |-> SEVERITY.LOW,
        pattern |-> {TimerLine}] >>

RECURSIVE Flatten(_)
\* the concatenation of the sequences of seqs
Flatten(seqs) ==
    IF seqs = <<>> THEN <<>> ELSE Head(seqs) \o Flatten(Tail(seqs))

RECURSIVE MatchesFrom(_, _, _)
\* the while loop of searchPattern: regex.exec from line k on, one match
\* object per match, text and line number
MatchesFrom(lines, pattern, k) ==
    IF k > Len(lines) THEN <<>>
    ELSE (IF lines[k] \in pattern THEN <<[text |-> lines[k], line |-> k]>> ELSE <<>>)
             \o MatchesFrom(lines, pattern, k + 1)

\* searchPattern: all the matches, wrapped in ONE element, or no element
SearchPattern(file, pattern) ==
    LET matches == MatchesFrom(file.lines, pattern, 1)
    IN  IF Len(matches) > 0 THEN <<[matches |-> matches]>> ELSE <<>>

\* calllater-no-remove: the function of match.matches[0] of each element; no
\* script line holds a Remove(), so each distinct function is reported
CheckCallLaterNoRemove(matches, file) ==
    LET funcs == {IF m.matches[1].text = QueueLine THEN "UpdatePlayer" ELSE "F" :
                      m \in {matches[k] : k \in 1..Len(matches)}}
        Report(func) == <<[line |-> 0, severity |-> SEVERITY.MEDIUM]>>
    IN  IF funcs = {} THEN <<>>
        ELSE IF Cardinality(funcs) = 1 THEN Report("F")
        ELSE Report("F") \o Report("UpdatePlayer")

\* file-operations-loop: match.matches[0] of each element; the line of the
\* match is itself in the context lines and holds the loop keyword
CheckFileOperationsLoop(matches, file) ==
    LET One(m) == <<[line |-> m.matches[1].line, severity |-> SEVERITY.CRITICAL]>>
    IN  Flatten([k \in 1..Len(matches) |-> One(matches[k])])

\* sleep-in-code: matches.flatMap(m => m.matches.map(...))
CheckSleep(matches, file) ==
    LET One(m) == [k \in 1..Len(m.matches) |->
                      [line |-> m.matches[k].line, severity |-> SEVERITY.HIGH]]
    IN  Flatten([k \in 1..Len(matches) |-> One(matches[k])])

\* update-frequency: match.matches[0] of each element of matches
CheckUpdateFrequency(matches, file) ==
    LET One(m) ==
            LET interval == Interval(m.matches[1].text)
            IN  IF interval < 100
                THEN <<[line |-> m.matches[1].line,
                        severity |-> IF interval < 50 THEN SEVERITY.HIGH ELSE SEVERITY.MEDIUM]>>
                ELSE <<>>
    IN  Flatten([k \in 1..Len(matches) |-> One(matches[k])])

\* wrong-callqueue-category: category SYSTEM on a line naming UpdatePlayer
CheckCallQueue(matches, file) ==
    LET One(m) == <<[line |-> m.matches[1].line, severity |-> SEVERITY.LOW]>>
    IN  Flatten([k \in 1..Len(matches) |-> One(matches[k])])

\* getgame-spam: no script line holds a function body, nothing is reported
CheckGetGame(matches, file) == <<>>

\* inappropriate-update-interval: match.matches[0] of each element; 70 is not
\* one of the standard intervals
CheckUpdateInterval(matches, file) ==
    LET One(m) == <<[line |-> m.matches[1].line, severity |-> SEVERITY.INFO]>>
    IN  Flatten([k \in 1..Len(matches) |-> One(matches[k])])

\* rule.check(matches, file)
RuleCheck(rule, matches, file) ==
    CASE rule.id = "calllater-no-remove" -> CheckCallLaterNoRemove(matches, file)
      [] rule.id = "file-operations-loop" -> CheckFileOperationsLoop(matches, file)
      [] rule.id = "sleep-in-code" -> CheckSleep(matches, file)
      [] rule.id = "update-frequency" -> CheckUpdateFrequency(matches, file)
      [] rule.id = "wrong-callqueue-category" -> CheckCallQueue(matches, file)
      [] rule.id = "getgame-spam" -> CheckGetGame(matches, file)
      [] OTHER -> CheckUpdateInterval(matches, file)

\* analyzeFile: for each rule, the issues its check reports on what
\* searchPattern returned, each with the rule's id
AnalyzeFile(file) ==
    LET OfRule(rule) ==
            LET matches == SearchPattern(file, rule.pattern)
                ruleIssues == IF Len(matches) > 0 THEN RuleCheck(rule, matches, file) ELSE <<>>
            IN  [k \in 1..Len(ruleIssues) |->
                    [ruleId |-> rule.id, severity |-> ruleIssues[k].severity,
                     line |-> ruleIssues[k].line]]
    IN  Flatten([k \in 1..Len(AllRules) |-> OfRule(AllRules[k])])

\* the number of the issues of severity sev in seq
CountSeverity(seq, sev) == Cardinality({k \in 1..Len(seq) : seq[k].severity = sev})

\* calculateSummary: every issue held in results.issues is added to the
\* counters as they are
CalculateSummary(summary, issues) ==
    LET all == Flatten([k \in 1..Len(issues) |-> issues[k].issues])
    IN  [summary EXCEPT !.totalIssues = @ + Len(all),
                        !.critical = @ + CountSeverity(all, SEVERITY.CRITICAL),
                        !.high = @ + CountSeverity(all, SEVERITY.HIGH),
                        !.medium = @ + CountSeverity(all, SEVERITY.MEDIUM),
                        !.low = @ + CountSeverity(all, SEVERITY.LOW),
                        !.info = @ + CountSeverity(all, SEVERITY.INFO)]

\* the constructor's this.results
NewResults(fs) == [NoResults EXCEPT !.summary.totalFiles = Len(fs)]

\* analyze: per file, its issues (when there are any) and its statistics are
\* appended; then calculateSummary
AnalyzeResults(fs, results) ==
    LET found == [k \in 1..Len(fs) |-> [file |-> fs[k].path, issues |-> AnalyzeFile(fs[k])]]
        issues == results.issues \o SelectSeq(found, LAMBDA r : Len(r.issues) > 0)
        fileStats == results.fileStats \o
                        [k \in 1..Len(fs) |-> [file |-> fs[k].path, lines |-> Len(fs[k].lines),
                                               issueCount |-> Len(found[k].issues)]]
    IN  [summary |-> CalculateSummary(results.summary, issues),
         issues |-> issues,
         fileStats |-> fileStats]

\* getScore without Math.min and Math.max
GetScoreUncapped(summary) ==
    100 - (summary.critical * 20 + summary.high * 10 + summary.medium * 5
              + summary.low * 2 + summary.info * 1)

\* getScore
GetScore(summary) ==
    LET penalties == summary.critical * 20 + summary.high * 10 + summary.medium * 5
                        + summary.low * 2 + summary.info * 1
    IN  Max(0, 100 - Min(penalties, 100))

\* getRating with the bounds of two bands moved by one
GetRatingShifted(summary) ==
    LET score == GetScore(summary)
    IN  IF score > 90 THEN "EXCELLENT"
        ELSE IF score >= 75 THEN "GOOD"
        ELSE IF score >= 60 THEN "FAIR"
        ELSE IF score > 40 THEN "POOR"
        ELSE "CRITICAL"

\* getRating
GetRating(summary) ==
    LET score == GetScore(summary)
    IN  IF score >= 90 THEN "EXCELLENT"
        ELSE IF score >= 75 THEN "GOOD"
        ELSE IF score >= 60 THEN "FAIR"
        ELSE IF score >= 40 THEN "POOR"
        ELSE "CRITICAL"

\* the script files handed to the analyzer: at most two, each of one line or
\* more, of MaxLines lines together
FileLists ==
    LET Scripts(n) == [1..n -> ScriptLines]
        File(path, lines) == [path |-> path, lines |-> lines]
    IN  {<<>>}
        \cup UNION {{<<File(1, l)>> : l \in Scripts(n)} : n \in 1..MaxLines}
        \cup UNION {UNION {{<<File(1, l1), File(2, l2)>> : l1 \in Scripts(n1), l2 \in Scripts(n2)} :
                              n2 \in 1..(MaxLines - n1)} : n1 \in 1..MaxLines}

\* everything but the analyzer
analyzerRest == <<lz, buffer, pc, offset, firstEntry, entries, idx, files, returned, dataStart, hdrLog, earlier, peer, req, srv, stats>>

\* new PerformanceAnalyzer(files)
NewAnalyzer(fs) ==
    /\ an.pc = "none"
    /\ an' = [an EXCEPT !.pc = "new", !.files = fs, !.results = NewResults(fs)]
    /\ UNCHANGED analyzerRest

\* analyze(), the first call or a further one on the same analyzer
Analyze ==
    /\ an.pc \in {"new", "analyzed"}
    /\ an.calls < MaxAnalyze
    /\ an' = [an EXCEPT !.pc = "analyzed", !.calls = @ + 1, !.score = -1, !.rating = "",
                        !.results = AnalyzeResults(an.files, an.results)]
    /\ UNCHANGED analyzerRest

\* a call of getScore() on the analyzer
QueryScore ==
    /\ an.pc = "analyzed"
    /\ an.score = -1
    /\ an' = [an EXCEPT !.score = GetScore(an.results.summary)]
    /\ UNCHANGED analyzerRest

\* a call of getRating() on the analyzer
QueryRating ==
    /\ an.pc = "analyzed"
    /\ an.rating = ""
    /\ an' = [an EXCEPT !.rating = GetRating(an.results.summary)]
    /\ UNCHANGED analyzerRest

NextAnalyzer ==
    \/ an.pc = "none" /\ \E fs \in FileLists : NewAnalyzer(fs)
    \/ Analyze
    \/ QueryScore
    \/ QueryRating

SpecAnalyzer == Init /\ [][NextAnalyzer]_vars

\* n times x
Copies(x, n) == [k \in 1..n |-> [ruleId |-> "some rule", severity |-> x, line |-> 0]]

\* an analyzer after one analyze() on one file in which the rules found
\* the given numbers of issues of each severity
AnalyzedWith(c, h, m, l, i) ==
    LET found == Copies(SEVERITY.CRITICAL, c) \o Copies(SEVERITY.HIGH, h)
                    \o Copies(SEVERITY.MEDIUM, m) \o Copies(SEVERITY.LOW, l)
                    \o Copies(SEVERITY.INFO, i)
        issues == IF Len(found) > 0 THEN <<[file |-> 1, issues |-> found]>> ELSE <<>>
    IN  [NoAnalyzer EXCEPT
            !.pc = "analyzed", !.calls = 1,
            !.files = <<[path |-> 1, lines |-> <<>>]>>,
            !.results = [summary |-> CalculateSummary(NewResults(<<1>>).summary, issues),
                         issues |-> issues,
                         fileStats |-> <<[file |-> 1, lines |-> 0, issueCount |-> Len(found)]>>]]

\* the analyzers getScore and getRating are asked on: every combination of
\* severity counts up to MaxCount
InitScore ==
    /\ buffer = <<>>
    /\ lz = LzIdle
    /\ pc = "start"
    /\ offset = 0
    /\ firstEntry = NoEntry
    /\ entries = <<>>
    /\ idx = 1
    /\ files = <<>>
    /\ returned = <<>>
    /\ dataStart = -1
    /\ hdrLog = <<>>
    /\ earlier = <<>>
    /\ peer = NoPeer
    /\ req = NoRequest
    /\ srv = NoUpload
    /\ stats = NoStatistics
    /\ \E c \in 0..MaxCount, h \in 0..MaxCount, m \in 0..MaxCount, l \in 0..MaxCount, i \in 0..MaxCount :
           an = AnalyzedWith(c, h, m, l, i)

NextScore ==
    \/ QueryScore
    \/ QueryRating

SpecScore == InitScore /\ [][NextScore]_vars

----------------------------------------------------------------------------
(* The CLI action after FileParser.parse returned *)

\* --output: not given, a path that can be written, a path that cannot
OutputOptions == {"none", "writable", "unwritable"}

\* the CLI action from the returned files to the end of analyze(): no script
\* file ends the run with code 0, else the analyzer is built and run
CliAnalyze(fs, quiet, output) ==
    /\ an.pc = "none"
    /\ an' = IF Len(fs) = 0
             THEN [an EXCEPT !.pc = "exit", !.exit = 0, !.quiet = quiet, !.output = output]
             ELSE [an EXCEPT !.pc = "cli analyzed", !.files = fs, !.calls = 1,
                             !.quiet = quiet, !.output = output,
                             !.results = AnalyzeResults(fs, NewResults(fs))]
    /\ UNCHANGED analyzerRest

\* the console report, or the quick summary of --quiet: both ask the score
\* and the rating
CliReport ==
    /\ an.pc = "cli analyzed"
    /\ an' = [an EXCEPT !.pc = "cli reported",
                        !.score = GetScore(an.results.summary),
                        !.rating = GetRating(an.results.summary)]
    /\ UNCHANGED analyzerRest

\* the JSON report is written when --output is given; a rejected
\* fs.writeFile is caught by the action's catch, which exits with code 1
CliSave ==
    /\ an.pc = "cli reported"
    /\ an' = IF an.output = "unwritable"
             THEN [an EXCEPT !.pc = "exit", !.exit = 1]
             ELSE [an EXCEPT !.pc = "cli saved"]
    /\ UNCHANGED analyzerRest

\* the exit code chosen from the summary
ExitCode(summary) ==
    IF summary.critical > 0 THEN 2
    ELSE IF summary.high > 0 THEN 1
    ELSE 0

\* process.exit at the end of the action
CliExit ==
    /\ an.pc = "cli saved"
    /\ an' = [an EXCEPT !.pc = "exit", !.exit = ExitCode(an.results.summary)]
    /\ UNCHANGED analyzerRest

NextCli ==
    \/ an.pc = "none" /\ \E fs \in FileLists, quiet \in BOOLEAN, output \in OutputOptions :
                             CliAnalyze(fs, quiet, output)
    \/ CliReport
    \/ CliSave
    \/ CliExit

SpecCli == Init /\ [][NextCli]_vars

----------------------------------------------------------------------------
(* POST /api/analyze: the handler, from the stored upload to the clean-up *)

\* the path multer's disk storage gave the upload
UploadPath == "uploads/1-abc-mod.zip"

\* everything but the request
serverRest == <<lz, buffer, pc, offset, firstEntry, entries, idx, files, returned, dataStart, hdrLog, earlier, peer, req, an, stats>>

\* upload.single('modFile') has run and calls the handler: with the upload
\* stored and req.file set, or with no file in the request
Receive(hasFile) ==
    /\ srv.stage = "idle"
    /\ srv' = [srv EXCEPT !.stage = "handler", !.hasFile = hasFile, !.stored = hasFile]
    /\ UNCHANGED serverRest

\* the handler up to the parse: no req.file is answered 400 with filePath
\* still null; else filePath is set and the parse is awaited
HandlerStart ==
    /\ srv.stage = "handler"
    /\ srv' = IF ~srv.hasFile
              THEN [srv EXCEPT !.stage = "finally", !.status = 400, !.outcome = "no file"]
              ELSE [srv EXCEPT !.stage = "parse", !.filePath = UploadPath]
    /\ UNCHANGED serverRest

\* parser.parse() resolves with the script files of the archive
ParseResolves(fs) ==
    /\ srv.stage = "parse"
    /\ srv' = IF Len(fs) = 0
              THEN [srv EXCEPT !.stage = "finally", !.status = 200, !.outcome = "no script files"]
              ELSE [srv EXCEPT !.stage = "analyze", !.parsed = fs]
    /\ UNCHANGED serverRest

\* parser.parse() rejects: the catch answers 500
ParseRejects ==
    /\ srv.stage = "parse"
    /\ srv' = [srv EXCEPT !.stage = "finally", !.status = 500, !.outcome = "parse error"]
    /\ UNCHANGED serverRest

\* the analysis and the response; an exception on the way is answered 500 by
\* the catch
HandlerAnalyze(throws) ==
    /\ srv.stage = "analyze"
    /\ srv' = IF throws
              THEN [srv EXCEPT !.stage = "finally", !.status = 500, !.outcome = "analysis error"]
              ELSE LET results == AnalyzeResults(srv.parsed, NewResults(srv.parsed))
                   IN  [srv EXCEPT !.stage = "finally", !.status = 200, !.outcome = "analyzed",
                                   !.score = GetScore(results.summary),
                                   !.rating = GetRating(results.summary)]
    /\ UNCHANGED serverRest

\* the finally block that forgets the file
CleanUpNothing(filePath, stored) == stored

\* the finally block: the file at filePath is unlinked when filePath is set
CleanUp(filePath, stored) == IF filePath # "null" THEN FALSE ELSE stored

\* the finally block, then the handler ends
HandlerFinally ==
    /\ srv.stage = "finally"
    /\ srv' = [srv EXCEPT !.stage = "done", !.stored = CleanUp(srv.filePath, srv.stored)]
    /\ UNCHANGED serverRest

NextServer ==
    \/ \E hasFile \in BOOLEAN : Receive(hasFile)
    \/ HandlerStart
    \/ srv.stage = "parse" /\ \E fs \in FileLists : ParseResolves(fs)
    \/ ParseRejects
    \/ \E throws \in BOOLEAN : HandlerAnalyze(throws)
    \/ HandlerFinally

SpecServer == Init /\ [][NextServer]_vars

----------------------------------------------------------------------------
(* Statistics: recordAnalysis calls that overlap at their awaits *)

\* the most recordAnalysis calls on one Statistics
MaxRecords == 2

\* the fileCount arguments
FileCounts == {1, 2}

\* the stats object initialize creates when the file cannot be read
ZeroStats == [set |-> TRUE, totalAnalyses |-> 0, totalFilesChecked |-> 0]

\* what statistics.json holds before the calls: nothing, or earlier totals
StoredBefore == {NullStats, [set |-> TRUE, totalAnalyses |-> 3, totalFilesChecked |-> 7]}

\* everything but the statistics
statsRest == <<lz, buffer, pc, offset, firstEntry, entries, idx, files, returned, dataStart, hdrLog, earlier, peer, req, an, srv>>

\* this.stats.totalAnalyses += 1; this.stats.totalFilesChecked += fileCount
Recorded(s, fileCount) ==
    [s EXCEPT !.totalAnalyses = @ + 1, !.totalFilesChecked = @ + fileCount]

\* new Statistics() over the file as it is; loaded: an earlier initialize()
\* of this instance has completed
OpenStatistics(content, loaded) ==
    /\ stats.stage = "idle"
    /\ LET first == IF content.set THEN content ELSE ZeroStats
       IN  stats' = [stats EXCEPT !.stage = "open",
                                  !.mem = IF loaded THEN first ELSE NullStats,
                                  !.file = IF loaded THEN first ELSE content,
                                  !.base = first]
    /\ UNCHANGED statsRest

\* recordAnalysis(fileCount) up to its first await: with this.stats set the
\* counters are updated at once and save() writes their JSON text; else
\* initialize() awaits fs.mkdir
RecordAnalysis(fileCount) ==
    /\ stats.stage = "open"
    /\ Len(stats.calls) < MaxRecords
    /\ LET inFlight == \E c \in 1..Len(stats.calls) : stats.calls[c].pc # "done"
           mem == IF stats.mem.set THEN Recorded(stats.mem, fileCount) ELSE stats.mem
           call == [pc |-> IF stats.mem.set THEN "write" ELSE "mkdir",
                    fileCount |-> fileCount, data |-> NullStats,
                    text |-> IF stats.mem.set THEN mem ELSE NullStats]
       IN  stats' = [stats EXCEPT !.mem = mem, !.calls = Append(@, call),
                                  !.overlap = @ \/ inFlight]
    /\ UNCHANGED statsRest

\* initialize: fs.mkdir has resolved, fs.readFile is awaited
MkdirResolves(c) ==
    /\ stats.calls[c].pc = "mkdir"
    /\ stats' = [stats EXCEPT !.calls[c].pc = "reading"]
    /\ UNCHANGED statsRest

\* the file system reads statistics.json for the call
ReadCompletes(c) ==
    /\ stats.calls[c].pc = "reading"
    /\ stats' = [stats EXCEPT !.calls[c].pc = "read", !.calls[c].data = stats.file]
    /\ UNCHANGED statsRest

\* the code after await fs.readFile: this.stats = JSON.parse(data), then
\* recordAnalysis updates the counters and saves; or, the read having
\* failed, this.stats is a new zero object and initialize awaits save()
AfterRead(c) ==
    /\ stats.calls[c].pc = "read"
    /\ LET call == stats.calls[c]
           mem == IF call.data.set THEN Recorded(call.data, call.fileCount) ELSE ZeroStats
       IN  stats' = [stats EXCEPT !.mem = mem,
                                  !.calls[c].text = mem,
                                  !.calls[c].pc = IF call.data.set THEN "write" ELSE "first write"]
    /\ UNCHANGED statsRest

\* the file system completes the fs.writeFile of the call
WriteCompletes(c) ==
    /\ stats.calls[c].pc \in {"first write", "write"}
    /\ stats' = [stats EXCEPT !.file = stats.calls[c].text,
                              !.calls[c].pc = IF @ = "write" THEN "written" ELSE "first written"]
    /\ UNCHANGED statsRest

\* the code after initialize's save(): recordAnalysis updates the counters
\* of this.stats as it is now and saves
AfterFirstWrite(c) ==
    /\ stats.calls[c].pc = "first written"
    /\ LET mem == Recorded(stats.mem, stats.calls[c].fileCount)
       IN  stats' = [stats EXCEPT !.mem = mem, !.calls[c].text = mem, !.calls[c].pc = "write"]
    /\ UNCHANGED statsRest

\* the code after recordAnalysis's save(): the call completes
AfterWrite(c) ==
    /\ stats.calls[c].pc = "written"
    /\ stats' = [stats EXCEPT !.calls[c].pc = "done"]
    /\ UNCHANGED statsRest

NextStats ==
    \/ stats.stage = "idle" /\ \E content \in StoredBefore, loaded \in BOOLEAN :
                                   OpenStatistics(content, loaded)
    \/ \E fileCount \in FileCounts : RecordAnalysis(fileCount)
    \/ \E c \in 1..Len(stats.calls) : MkdirResolves(c)
    \/ \E c \in 1..Len(stats.calls) : ReadCompletes(c)
    \/ \E c \in 1..Len(stats.calls) : AfterRead(c)
    \/ \E c \in 1..Len(stats.calls) : WriteCompletes(c)
    \/ \E c \in 1..Len(stats.calls) : AfterFirstWrite(c)
    \/ \E c \in 1..Len(stats.calls) : AfterWrite(c)

SpecStats == Init /\ [][NextStats]_vars

----------------------------------------------------------------------------
(* decompressLZH called directly, on enumerated inputs *)

\* control bytes 0x00, 0x01, 0x03, 0xff; pointer bytes; literals
LzAlphabet == {0, 1, 3, 255}

LitPool == <<104, 105, 33>>

\* the k-th literal of an all-literal input
LitByte(k) == LitPool[(k % Len(LitPool)) + 1]

\* an all-literal input: a control byte 0xff before every 8 literals
RECURSIVE LitStream(_, _)
LitStream(first, n) ==
    IF n <= 0 THEN <<>>
    ELSE <<255>> \o [k \in 1..Min(n, 8) |-> LitByte(first + k - 1)] \o LitStream(first + 8, n - 8)

\* n literals, then a back-reference of distance d and length 3 + e into
\* them, then one more byte so that the reference is read: the control byte
\* has its n low bits set; the output has room for all, for one byte less or
\* for one byte more
CopyInputs ==
    { [data |-> <<2 ^ n - 1>> \o [k \in 1..n |-> LitByte(k - 1)] \o <<d, e, 0>>,
       originalSize |-> n + MinCopyLen + e + room] :
        n \in 1..MaxDistance, d \in 0..MaxDistance, e \in {0, 1}, room \in {-1, 0, 1} }

LzInputs ==
    { [data |-> d, originalSize |-> n] :
        d \in UNION { [1..m -> LzAlphabet] : m \in 0..MaxIn }, n \in 0..MaxOriginalSize }
    \cup
    { [data |-> LitStream(0, n) \o t, originalSize |-> n] :
        n \in 1..MaxLits, t \in {<<>>, <<0, 0>>} }
    \cup CopyInputs

ParseIdle ==
    /\ buffer = <<>>
    /\ pc = "idle"
    /\ offset = 0
    /\ firstEntry = NoEntry
    /\ entries = <<>>
    /\ idx = 1
    /\ files = <<>>
    /\ returned = <<>>
    /\ dataStart = -1
    /\ hdrLog = <<>>
    /\ earlier = <<>>
    /\ peer = NoPeer
    /\ req = NoRequest
    /\ AppIdle

\* line 190-193: a call of decompressLZH
CallDecompressLZH(compressedData, originalSize) ==
    /\ lz.pc = "idle"
    /\ lz' = LzStart(compressedData, originalSize)
    /\ UNCHANGED parseVars

InitLZH ==
    /\ lz = LzIdle
    /\ ParseIdle

NextLZH ==
    \/ lz.pc = "idle" /\ \E inp \in LzInputs : CallDecompressLZH(inp.data, inp.originalSize)
    \/ LzhStep

SpecLZH == InitLZH /\ [][NextLZH]_vars

\* decompressLZH is synchronous: once called it runs until it returns
FairSpecLZH == SpecLZH /\ WF_vars(LzhStep)

----------------------------------------------------------------------------
(* Properties of decompressLZH (checked under SpecLZH / FairSpecLZH) *)

\* C1, as claimed: decompressLZH terminates for every compressed input and
\* every originalSize, also when a back-reference starts before the output
\* and ends inside it (rpos < 0 <= rpos + rlen).
C1_DecompressTerminates == (lz.pc = "outer") ~> (lz.pc = "ret")

\* C2, as claimed: a back-reference with negative source position rpos pads
\* exactly min(-rpos, copy length) bytes of 0x20, then copies the remaining
\* copy length - padded bytes from output position 0; it never appends more
\* than its copy length.
C2_NegativeReferencePadsExactly ==
    (lz.pc \in {"padall", "pad", "padbody", "copy"} /\ lz.rpos < 0) =>
        LET len == CopyLen(lz.pointer)
            appended == lz.outputPos - (lz.rpos + Distance(lz.pointer))
            padCount == Min(-lz.rpos, len)
        IN  /\ appended <= padCount
            /\ \A k \in 1..appended :
                   ByteAt(lz.output, lz.outputPos - k) \in {PadByte, 0}
            /\ lz.pc = "copy" =>
                   appended = padCount /\ lz.copyPos = 0 /\ lz.rlen = len - padCount

\* an input of control bytes 0xff each followed by its literals, n literals
\* in all and nothing after them
IsAllLiteral(d, n) ==
    /\ n >= 1
    /\ Len(d) = n + ((n + 7) \div 8)
    /\ \A k \in 0..(Len(d) - 1) : (k % 9 = 0) => d[k + 1] = 255

LiteralsOf(d, n) == [j \in 1..n |-> d[j + ((j - 1) \div 8) + 1]]

\* C3, as claimed: an all-literal input with originalSize = its number of
\* literals and no trailing bytes decompresses to exactly those literals.
C3_AllLiteralIdentity ==
    (lz.pc = "ret" /\ IsAllLiteral(lz.data, lz.originalSize)) =>
        lz.output = LiteralsOf(lz.data, lz.originalSize)

\* C4: decompressLZH never reads the compressed input at an index >= its
\* length: control byte, literal and both bytes of a pointer lie inside.
C4_ReadsInsideInput == lz.maxRead < Len(lz.data)

\* C4 witness: a finished run that read a pointer and then read the last
\* byte of the input (as a control byte)
C4_Witness ==
    lz.pc = "ret" /\ lz.pointer > 0 /\ lz.maxRead = Len(lz.data) - 1

\* C5, as claimed: outputPos never exceeds originalSize, also when a padding
\* or copy run starts with fewer output positions left than its length.
C5_OutputPosWithinOriginalSize == lz.outputPos <= lz.originalSize

----------------------------------------------------------------------------
(* Properties of parse (checked under Spec / FairSpec) *)

Paths(fs) == [k \in 1..Len(fs) |-> fs[k].path]

FileNames(es) == [k \in 1..Len(es) |-> es[k].fileName]

\* the name ends in ext, whatever the case of its letters (ext in lower case)
EndsWithAnyCase(name, ext) ==
    /\ Len(name) >= Len(ext)
    /\ \A k \in 1..Len(ext) :
           LET c == name[Len(name) - Len(ext) + k]
           IN  c = ext[k] \/ (c >= 65 /\ c <= 90 /\ c + 32 = ext[k])

HasScriptExtension(e) ==
    EndsWithAnyCase(e.fileName, <<46, 99>>) \/ EndsWithAnyCase(e.fileName, <<46, 99, 112, 112>>)

HasKnownMethod(e) ==
    e.packingMethod \in {PACKING_METHOD_UNCOMPRESSED, PACKING_METHOD_PACKED}

HasScriptExtensionAndKnownMethod(e) == HasScriptExtension(e) /\ HasKnownMethod(e)

\* parse returned, and every data block of the table lies inside the buffer
ReturnedOnWellFormed == pc = "done" /\ offset <= Len(buffer)

\* C6, as claimed: when the decompressor returns with fewer than originalSize
\* bytes produced (its input ran out), parse adds no record for that entry.
C6_ShortPackedEntryYieldsNoRecord ==
    [][(pc = "lzh" /\ lz.pc = "ret" /\ lz.outputPos < lz.originalSize) => files' = files]_vars

\* C7, as claimed: on a well-formed archive the returned paths are, in table
\* order, exactly the table entries whose name ends in .c or .cpp.
C7_ReturnedPathsAreScriptEntries ==
    ReturnedOnWellFormed =>
        Paths(returned) = FileNames(SelectSeq(entries, HasScriptExtension))

\* C7, amended: on a well-formed archive the returned paths are, in table
\* order, exactly the table entries whose name ends in .c or .cpp and whose
\* packing method is 0x00000000 or 0x43707273.
C7_ReturnedPathsAreDecodableScriptEntries ==
    ReturnedOnWellFormed =>
        Paths(returned) = FileNames(SelectSeq(entries, HasScriptExtensionAndKnownMethod))

\* C7 witness: parse returned B.CPP and left out a script entry stored under
\* an unsupported method
C7_Witness ==
    /\ ReturnedOnWellFormed
    /\ Len(returned) = 1
    /\ returned[1].path = NameBCPP
    /\ \E k \in 1..Len(entries) :
           HasScriptExtension(entries[k]) /\ ~HasKnownMethod(entries[k])

\* C8, as claimed: the first header entry with an empty fileName that is not
\* the product entry ends the table: it is the last header read, it is not
\* appended, the parse goes on to the data, and the data starts right after it.
C8_TableEndsAtFirstEmptyName ==
    \A k \in 1..Len(hdrLog) :
        (hdrLog[k].fileName = <<>>
            /\ ~(k = 1 /\ hdrLog[k].packingMethod = PACKING_METHOD_PRODUCT)) =>
            /\ k = Len(hdrLog)
            /\ pc \in {"extract", "lzh", "done"}
            /\ dataStart = hdrLog[k].newOffset
            /\ \A j \in 1..Len(entries) : entries[j].fileName # <<>>

\* the index of the first zero byte at or after off, or the buffer length
RECURSIVE ZeroFrom(_, _)
ZeroFrom(buf, off) ==
    IF off >= Len(buf) THEN Len(buf)
    ELSE IF buf[off + 1] = 0 THEN off ELSE ZeroFrom(buf, off + 1)

\* a whole header entry (terminated name and 20 bytes) lies at off
WholeHeaderAt(buf, off) == ZeroFrom(buf, off) + 21 <= Len(buf)

\* the table that starts at off holds a whole header entry with an empty name
RECURSIVE TableHasBoundary(_, _)
TableHasBoundary(buf, off) ==
    /\ WholeHeaderAt(buf, off)
    /\ \/ ZeroFrom(buf, off) = off
       \/ TableHasBoundary(buf, ZeroFrom(buf, off) + 21)

\* the offset after the terminator of the property block at off, or -1 when
\* the buffer ends first
RECURSIVE PropertiesEnd(_, _)
PropertiesEnd(buf, off) ==
    LET nameEnd == ZeroFrom(buf, off)
        valueEnd == ZeroFrom(buf, nameEnd + 1)
    IN  IF nameEnd >= Len(buf) THEN -1
        ELSE IF nameEnd = off THEN off + 1
        ELSE IF valueEnd >= Len(buf) THEN -1
        ELSE PropertiesEnd(buf, valueEnd + 1)

\* a boundary entry occurs before the end of the buffer
HasBoundary(buf) ==
    /\ WholeHeaderAt(buf, 0)
    /\ LET o == ZeroFrom(buf, 0) + 1
           product == SubSeq(buf, o + 1, o + 4) = U32LE(PACKING_METHOD_PRODUCT)
       IN  IF product
           THEN /\ PropertiesEnd(buf, o + 20) # -1
                /\ TableHasBoundary(buf, PropertiesEnd(buf, o + 20))
           ELSE TableHasBoundary(buf, 0)

\* how far parse is from its end on a buffer without a boundary entry: the
\* phases first > props > table > error, and within a phase the bytes left
\* before the offset passes the end of the buffer
PhaseRank == [first |-> 3, props |-> 2, table |-> 1, error |-> 0]

TableRank ==
    IF pc \in DOMAIN PhaseRank /\ offset <= Len(buffer) + 4
    THEN PhaseRank[pc] * (Len(buffer) + 5) + (Len(buffer) + 4 - offset)
    ELSE -1

\* C9: on a buffer without a boundary entry parse terminates in the error and
\* returns no list: it never gets past the table loop, and every step it
\* takes lowers a rank that cannot fall below 0, so neither the property loop
\* nor the table loop runs forever.
C9_NoBoundaryEndsInError ==
    /\ []((pc # "start" /\ ~HasBoundary(buffer)) => TableRank >= 0)
    /\ [][(pc # "start" /\ ~HasBoundary(buffer)) => TableRank' < TableRank]_vars

\* C9 witness: content entries were read, then the buffer ended and parse
\* failed
C9_Witness ==
    pc = "error" /\ ~HasBoundary(buffer) /\ Len(entries) >= 1

RECURSIVE SumDataSize(_, _)
SumDataSize(es, n) == IF n <= 0 THEN 0 ELSE es[n].dataSize + SumDataSize(es, n - 1)

\* C10: after entry k is processed the running offset is the offset just
\* after the boundary marker plus the dataSize of entries 0..k, whether the
\* entry was decoded, excluded by its extension or skipped for its method.
C10_RunningOffset ==
    pc \in {"extract", "done"} =>
        offset = dataStart + SumDataSize(entries, idx - 1)

\* C10 witness: a parse that excluded one entry by extension and skipped one
\* script entry for its method, with both data blocks passed over
C10_Witness ==
    /\ pc = "done"
    /\ offset > dataStart
    /\ \E k \in 1..Len(entries) : ~HasScriptExtension(entries[k]) /\ entries[k].dataSize > 0
    /\ \E k \in 1..Len(entries) :
           HasScriptExtension(entries[k]) /\ ~HasKnownMethod(entries[k])

\* the data offset just after entry k of the table (k = 0: after the boundary
\* marker)
DataEnd(k) == dataStart + SumDataSize(entries, k)

\* C11, as claimed: the read offset never exceeds the buffer length, whether
\* it was moved by a header read, a cstring read or an entry's dataSize.
C11_OffsetWithinBuffer == offset <= Len(buffer)

\* C12, as claimed: an included entry whose data range [offset, offset +
\* dataSize) passes the end of the buffer yields no record, neither when it is
\* stored raw nor when the decompressor returns for it.
C12_EntryPastBufferYieldsNoRecord ==
    [][(/\ pc \in {"extract", "lzh"}
        /\ idx <= Len(entries)
        /\ HasScriptExtension(entries[idx])
        /\ DataEnd(idx) > Len(buffer)) => files' = files]_vars

\* C13: an included entry whose packing method is neither 0x00000000 nor
\* 0x43707273 yields no record and its dataSize bytes are skipped; and a raw
\* script entry that comes after such an entry is decoded from its own data
\* range, the one that starts after the dataSize of all entries before it.
C13_UnknownMethodSkipped ==
    [][/\ (/\ pc = "extract"
           /\ idx <= Len(entries)
           /\ HasScriptExtension(entries[idx])
           /\ ~HasKnownMethod(entries[idx]))
          => (/\ files' = files
              /\ offset' = offset + entries[idx].dataSize
              /\ idx' = idx + 1
              /\ pc' = "extract")
       /\ (/\ pc = "extract"
           /\ idx <= Len(entries)
           /\ HasScriptExtension(entries[idx])
           /\ entries[idx].packingMethod = PACKING_METHOD_UNCOMPRESSED
           /\ \E j \in 1..(idx - 1) :
                  HasScriptExtension(entries[j]) /\ ~HasKnownMethod(entries[j]))
          => files' = Append(files, FileRecord(entries[idx],
                          Utf8Decode(Slice(buffer, DataEnd(idx - 1), DataEnd(idx)))))
      ]_vars

\* C13 witness: parse returned the raw script entry "hi" that follows a
\* script entry with an unsupported method, whose record is absent
C13_Witness ==
    /\ pc = "done"
    /\ offset = Len(buffer)
    /\ Len(entries) = 2
    /\ HasScriptExtension(entries[1]) /\ ~HasKnownMethod(entries[1])
    /\ Len(returned) = 1
    /\ returned[1].content = <<104, 105>>

\* the first header entry is the product entry
FirstIsProduct ==
    pc \notin {"start", "first"} /\ firstEntry.packingMethod = PACKING_METHOD_PRODUCT

\* the offset right after the empty name that ends the property block, or -1
BlockEnd == PropertiesEnd(buffer, firstEntry.newOffset)

\* C14: when the first header entry is the product entry and its property
\* block is terminated, the property loop ends right after the first empty
\* name (no value is read after it) and the entry table starts there; the
\* first entry is no content entry, every content entry's header and all file
\* data lie after the block; and when the header at the block's end is a whole
\* boundary marker, parse does not fail and returns the empty list.
C14_ProductPropertiesSkipped ==
    /\ []((FirstIsProduct /\ BlockEnd # -1) =>
            /\ pc = "props" => offset < BlockEnd
            /\ \A j \in 1..Len(entries) :
                   entries[j] # firstEntry /\ entries[j].newOffset > BlockEnd + 20
            /\ Len(hdrLog) >= 2 => hdrLog[2] = ReadHeaderEntry(buffer, BlockEnd)
            /\ pc \in {"extract", "lzh", "done"} => dataStart > BlockEnd + 20
            /\ (WholeHeaderAt(buffer, BlockEnd) /\ ZeroFrom(buffer, BlockEnd) = BlockEnd) =>
                   /\ pc # "error"
                   /\ entries = <<>>
                   /\ pc = "done" => returned = <<>>)
    /\ [][(FirstIsProduct /\ BlockEnd # -1 /\ pc = "props" /\ pc' = "table")
              => offset' = BlockEnd]_vars

\* C14 witness: a product entry, the pair "p" = "v", the empty name, an empty
\* table: parse returned the empty list
C14_Witness ==
    /\ pc = "done"
    /\ FirstIsProduct
    /\ BlockEnd = firstEntry.newOffset + 5
    /\ Len(hdrLog) = 2
    /\ returned = <<>>

\* the first header entry is the product entry and the buffer ends before an
\* empty property name
Unterminated == FirstIsProduct /\ BlockEnd = -1

\* C15, as claimed: on an unterminated property block parse terminates and
\* fails, and the buffer end is never taken as the terminator of the block:
\* parse never goes on to the entry table.
C15_UnterminatedBlockFailsInBlock ==
    /\ [](Unterminated => pc \in {"props", "error"})
    /\ [][Unterminated => TableRank' < TableRank]_vars

\* C15, amended: on an unterminated property block parse terminates and
\* fails. The property loop does end at the buffer end, but the header read
\* that follows it throws: no header entry is read after the first, no entry
\* is taken into the table, and parse never reaches the extraction.
C15_UnterminatedBlockFailsAtTable ==
    /\ [](Unterminated => (TableRank >= 0 /\ Len(hdrLog) = 1 /\ entries = <<>>))
    /\ [][Unterminated => TableRank' < TableRank]_vars
    /\ [][(Unterminated /\ pc = "table") => pc' = "error"]_vars

\* C15 witness: the buffer ended inside a property block that had begun, and
\* parse failed
C15_Witness ==
    /\ pc = "error"
    /\ Unterminated
    /\ Len(buffer) > firstEntry.newOffset

\* the first header entry was read, has a name and is not the product entry
FirstIsContent ==
    /\ pc \notin {"start", "first"}
    /\ firstEntry.fileName # <<>>
    /\ firstEntry.packingMethod # PACKING_METHOD_PRODUCT

RECURSIVE Utf8ByteLength(_)
Utf8ByteLength(str) ==
    IF str = <<>> THEN 0
    ELSE (IF Head(str) < 128 THEN 1
          ELSE IF Head(str) < 2048 THEN 2
          ELSE IF Head(str) >= 55296 /\ Head(str) <= 57343 THEN 2
          ELSE 3) + Utf8ByteLength(Tail(str))

\* the part of a path after its last '/' or '\'
LastSegment(path) ==
    LET seps == {k \in 1..Len(path) : path[k] \in {47, 92}}
    IN  IF seps = {} THEN path
        ELSE SubSeq(path, (CHOOSE k \in seps : \A j \in seps : j <= k) + 1, Len(path))

\* C17, as claimed: in every record size is the number of bytes of the
\* decoded content, also for content with multi-byte characters, and name is
\* the part of path after its last separator.
C17_SizeIsByteLength ==
    \A k \in 1..Len(files) :
        /\ files[k].size = Utf8ByteLength(files[k].content)
        /\ files[k].name = LastSegment(files[k].path)

\* C18, as claimed: a later parse() call on the same parser over the same
\* file returns a list equal to the list the call before it returned.
C18_SecondCallReturnsSameList ==
    (pc = "done" /\ earlier # <<>>) => returned = earlier[Len(earlier)]

\* parser A of the overlapping pair: the one on the file parsed alone before
InstA == IF peer.running = "A" THEN Running ELSE peer.inst

\* C19, as claimed: of two parses by separate parsers that overlap at the file
\* read, the one whose file was parsed alone before returns, and returns the
\* list it returned alone; and no step of the running parse changes the
\* suspended parser.
C19_OverlappingParsesReturnAloneResult ==
    /\ []((peer.phase = "pair" /\ InstA.pc = "done") => InstA.returned = peer.ref)
    /\ [][(peer.phase = "pair" /\ peer'.running = peer.running) => peer'.inst = peer.inst]_vars
    /\ (peer.phase = "pair") ~> (InstA.pc = "done")

\* the part of C19 that is about the state of the two parsers only
C19_IsolatedResult ==
    (peer.phase = "pair" /\ InstA.pc = "done") => InstA.returned = peer.ref

\* C20, as claimed: on the CLI path and on the endpoint's path, a file that
\* reaches FileParser.parse is not larger than the limit.
C20_SizeLimitBeforeParse ==
    req.stage \in {"parse", "parsePBO", "parseZip"} => req.size <= FileSizeLimit

\* the part of C20 that is about the endpoint
C20_EndpointEnforcesLimit ==
    (req.via \in {"page", "post"} /\ req.stage \in {"handler", "parse", "parsePBO", "parseZip"})
        => req.size <= FileSizeLimit

\* C21: for non-negative severity counts getScore returns an integer in
\* 0..100: 100 minus the penalty (critical 20, high 10, medium 5, low 2,
\* info 1), the penalty capped at 100.
C21_ScoreInRange ==
    an.score # -1 =>
        LET s == an.results.summary
            penalty == 20 * s.critical + 10 * s.high + 5 * s.medium + 2 * s.low + s.info
        IN  /\ an.score \in 0..100
            /\ penalty <= 100 => an.score = 100 - penalty
            /\ penalty >= 100 => an.score = 0

\* getScore was asked on an analyzer whose penalty is over 100
C21_Witness ==
    /\ an.score = 0
    /\ an.results.summary.critical = MaxCount
    /\ an.results.summary.info = 1

\* C22: getRating gives every score in 0..100 the band of the documentation:
\* 90-100 EXCELLENT, 75-89 GOOD, 60-74 FAIR, 40-59 POOR, 0-39 CRITICAL.
C22_RatingBands ==
    an.rating # "" =>
        LET score == GetScore(an.results.summary)
        IN  /\ score \in 90..100 <=> an.rating = "EXCELLENT"
            /\ score \in 75..89 <=> an.rating = "GOOD"
            /\ score \in 60..74 <=> an.rating = "FAIR"
            /\ score \in 40..59 <=> an.rating = "POOR"
            /\ score \in 0..39 <=> an.rating = "CRITICAL"

\* getRating was asked at the lowest score of a band
C22_Witness ==
    /\ an.rating = "EXCELLENT"
    /\ GetScore(an.results.summary) = 90

\* C23, as claimed: after a completed analysis the CLI exits with code 2
\* exactly when a CRITICAL issue was counted, with code 1 when none was but a
\* HIGH issue was, and with code 0 only when neither was counted.
C23_ExitCodeFromSummary ==
    (an.pc = "exit" /\ an.calls > 0) =>
        LET s == an.results.summary
        IN  /\ an.exit = 2 <=> s.critical > 0
            /\ (s.critical = 0 /\ s.high > 0) => an.exit = 1
            /\ an.exit = 0 => (s.critical = 0 /\ s.high = 0)

\* the part of C23 that holds: the exit codes of the runs whose report was
\* not to be written or was written
C23_ExitCodeWhenSaved ==
    (an.pc = "exit" /\ an.calls > 0 /\ an.output # "unwritable") =>
        LET s == an.results.summary
        IN  /\ an.exit = 2 <=> s.critical > 0
            /\ an.exit = 1 <=> (s.critical = 0 /\ s.high > 0)
            /\ an.exit = 0 <=> (s.critical = 0 /\ s.high = 0)

C25_CopyRepeatsAtDistance ==
    [][(/\ lz.pc = "copy"
        /\ Distance(lz.pointer) >= 1
        /\ lz.outputPos - Distance(lz.pointer) >= 0
        /\ lz.outputPos + CopyLen(lz.pointer) <= lz.originalSize)
       => /\ lz'.outputPos = lz.outputPos + CopyLen(lz.pointer)
          /\ \A j \in 0..(CopyLen(lz.pointer) - 1) :
                 ByteAt(lz'.output, lz.outputPos + j)
                     = ByteAt(lz'.output, lz.outputPos + j - Distance(lz.pointer))
          /\ \A k \in 0..(lz.outputPos - 1) : ByteAt(lz'.output, k) = ByteAt(lz.output, k)]_vars

\* a copy of length 3 at distance 1 has run over one literal: the literal
\* four times
C25_Witness ==
    /\ lz.pc = "ret"
    /\ Distance(lz.pointer) = 1
    /\ lz.output = <<LitByte(0), LitByte(0), LitByte(0), LitByte(0)>>

\* the buffer holds a zero byte at or after the offset readHeaderEntry is
\* about to be called with
NameTerminated == \E e \in offset..(Len(buffer) - 1) : buffer[e + 1] = 0

\* the number of bytes of the name at the offset, before its terminator
NameLength ==
    (CHOOSE e \in offset..(Len(buffer) - 1) :
        buffer[e + 1] = 0 /\ \A k \in offset..(e - 1) : buffer[k + 1] # 0) - offset

\* the four bytes of slot k after the name's terminator, as a little-endian
\* number
SlotValue(k) ==
    LET at == offset + NameLength + 1 + 4 * k
    IN  buffer[at + 1] + 256 * buffer[at + 2] + 65536 * buffer[at + 3] + 16777216 * buffer[at + 4]

\* C26: readHeaderEntry at offset o, on a zero-terminated name of n bytes
\* followed by 20 bytes or more, returns newOffset o + n + 21 and the
\* little-endian values of the five 4-byte slots after the terminator as
\* packingMethod, originalSize, reserved, timeStamp, dataSize; with fewer than
\* 20 bytes after the name it fails and returns no entry.
C26_HeaderEntryLayout ==
    [][(pc \in {"first", "table"} /\ NameTerminated)
       => IF Len(buffer) - (offset + NameLength + 1) >= 20
          THEN /\ Len(hdrLog') = Len(hdrLog) + 1
               /\ LET h == hdrLog'[Len(hdrLog')]
                  IN  /\ h.newOffset = offset + NameLength + 21
                      /\ offset' = h.newOffset
                      /\ h.packingMethod = SlotValue(0)
                      /\ h.originalSize = SlotValue(1)
                      /\ h.reserved = SlotValue(2)
                      /\ h.timeStamp = SlotValue(3)
                      /\ h.dataSize = SlotValue(4)
          ELSE pc' = "error" /\ hdrLog' = hdrLog]_vars

\* a header with a name and non-zero fields was read at an offset past the
\* first header, and the read after the last full header failed
C26_Witness ==
    /\ pc = "error"
    /\ Len(hdrLog) >= 2
    /\ hdrLog[2].fileName # <<>>
    /\ hdrLog[2].packingMethod = PACKING_METHOD_PACKED
    /\ hdrLog[2].originalSize > 0
    /\ hdrLog[2].dataSize > 0

\* C27: when decompressLZH returns, its output buffer has exactly
\* originalSize bytes, and every position no sub-operation wrote (the
\* positions from outputPos on: every store is at outputPos, which then moves
\* up by one) holds 0x00.
C27_OutputSizedAndZeroFilled ==
    lz.pc = "ret" =>
        /\ Len(lz.output) = lz.originalSize
        /\ \A k \in 0..(lz.originalSize - 1) : k >= lz.outputPos => ByteAt(lz.output, k) = 0

\* decompressLZH returned after its input ran out with part of the output
\* written
C27_Witness ==
    /\ lz.pc = "ret"
    /\ lz.outputPos > 0
    /\ lz.outputPos < lz.originalSize
    /\ ByteAt(lz.output, 0) # 0

\* the number of issues held in results.issues
IssuesHeld(results) == Len(Flatten([k \in 1..Len(results.issues) |-> results.issues[k].issues]))

\* the sum of the five severity counters
SeveritySum(summary) ==
    summary.critical + summary.high + summary.medium + summary.low + summary.info

\* C28, as claimed: after any number of analyze() calls on one analyzer,
\* summary.totalIssues is the number of issues held in results.issues and the
\* sum of the five severity counters, and results.fileStats has
\* summary.totalFiles entries.
C28_SummaryMatchesResults ==
    an.pc = "analyzed" =>
        /\ an.results.summary.totalIssues = IssuesHeld(an.results)
        /\ an.results.summary.totalIssues = SeveritySum(an.results.summary)
        /\ Len(an.results.fileStats) = an.results.summary.totalFiles

\* the part of C28 that holds: the three equalities after the first
\* analyze(), and the sum of the severity counters after every call
C28_AfterFirstCall ==
    an.pc = "analyzed" =>
        /\ an.results.summary.totalIssues = SeveritySum(an.results.summary)
        /\ an.calls = 1 =>
               /\ an.results.summary.totalIssues = IssuesHeld(an.results)
               /\ Len(an.results.fileStats) = an.results.summary.totalFiles

\* the issues of rule ruleId that results.issues holds for the file at path
IssuesOfRule(results, path, ruleId) ==
    SelectSeq(Flatten([k \in 1..Len(results.issues) |->
                          IF results.issues[k].file = path THEN results.issues[k].issues ELSE <<>>]),
              LAMBDA issue : issue.ruleId = ruleId)

\* the lines of the file that hold a CallLater call with an interval under
\* 100 ms
FastCalls(file) ==
    {k \in 1..Len(file.lines) :
        file.lines[k] \in {CallFast, CallMid, CallSlow, TimerLine, QueueLine}
            /\ Interval(file.lines[k]) < 100}

\* C29, as claimed: a file with k CallLater calls of an interval under 100 ms
\* yields k update-frequency issues, one for every match, at the lines of
\* the calls.
C29_EveryMatchExamined ==
    (an.pc = "analyzed" /\ an.calls = 1) =>
        \A f \in 1..Len(an.files) :
            LET found == IssuesOfRule(an.results, an.files[f].path, "update-frequency")
            IN  /\ Len(found) = Cardinality(FastCalls(an.files[f]))
                /\ {found[k].line : k \in 1..Len(found)} = FastCalls(an.files[f])

\* what analyzeFile does instead: the update-frequency check sees the first
\* match only
C29_FirstMatchOnly ==
    (an.pc = "analyzed" /\ an.calls = 1) =>
        \A f \in 1..Len(an.files) :
            LET found == IssuesOfRule(an.results, an.files[f].path, "update-frequency")
                calls == MatchesFrom(an.files[f].lines, {CallFast, CallMid, CallSlow, TimerLine, QueueLine}, 1)
            IN  Len(found) = IF calls # <<>> /\ Interval(calls[1].text) < 100 THEN 1 ELSE 0

\* every recordAnalysis call that was started has completed
AllRecorded ==
    /\ Len(stats.calls) >= 1
    /\ \A c \in 1..Len(stats.calls) : stats.calls[c].pc = "done"

RECURSIVE SumFileCounts(_)
SumFileCounts(calls) ==
    IF calls = <<>> THEN 0 ELSE Head(calls).fileCount + SumFileCounts(Tail(calls))

\* the totals N calls with these fileCounts should leave
ExpectedStats ==
    [set |-> TRUE,
     totalAnalyses |-> stats.base.totalAnalyses + Len(stats.calls),
     totalFilesChecked |-> stats.base.totalFilesChecked + SumFileCounts(stats.calls)]

\* C30, as claimed: when N recordAnalysis(f_i) calls have all completed,
\* however their awaits interleaved and also when they started on an
\* uninitialised instance, totalAnalyses has grown by N and totalFilesChecked
\* by the sum of the f_i, in memory and in the saved file.
C30_NoLostRecord ==
    AllRecorded => (stats.mem = ExpectedStats /\ stats.file = ExpectedStats)

\* the part of C30 that holds: calls of which none starts before the one
\* before it has completed
C30_SequentialCalls ==
    (AllRecorded /\ ~stats.overlap) => (stats.mem = ExpectedStats /\ stats.file = ExpectedStats)

====
